---- MODULE Spec2Model ----
(***************************************************************************)
(* Model of the flamethrower Router (src/lib/router.ts): construction,     *)
(* the prefetch refresh and the reconstructDOM navigation cycle with its   *)
(* two await points (fetch, res.text()).                                   *)
(*                                                                         *)
(* A URL is a sequence of tokens, so String.includes is a real search.     *)
(* Every cycle keeps the ordered list of the effects it completed.         *)
(***************************************************************************)
EXTENDS Integers, Sequences, FiniteSets, TLC

VARIABLES
  constructed,    \* the Router constructor has run
  hasHistory,     \* host: window.history exists
  transitionCap,  \* host: document.createDocumentTransition exists
  opts,           \* this.opts
  enabled,        \* this.enabled
  prefetched,     \* this.prefetched
  hist,           \* host: the session history entries
  hidx,           \* host: index of the current history entry
  head,           \* live document head: the document it was merged from
  body,           \* live document body: the document it was taken from
  linkEls,        \* number of <link rel=prefetch> elements created per href
  scrollY,        \* host: scroll position of the window
  warnings,       \* number of console.warn diagnostics
  calls,          \* number of calls of reconstructDOM so far
  faults,         \* number of faults the environment has injected so far
  cycles          \* the calls of reconstructDOM still in progress and those
                  \* that ended since the latest call began, in call order

vars ==
  <<constructed, hasHistory, transitionCap, opts, enabled, prefetched,
    hist, hidx, head, body, linkEls, scrollY, warnings, calls, faults, cycles>>

\* ------------------------------------------------------------------ bounds
\* calls of reconstructDOM in one run
MaxCycles ==
  2

\* faults of one run: a rejected fetch, an error status, an unreadable body
\* or a throwing step
MaxFaults ==
  1

\* ------------------------------------------------------------ environment
Origin ==
  "https://a.example"

Paths ==
  {"/", "/a"}

Root ==
  <<Origin, "/">>

PageA ==
  <<Origin, "/a">>

PageB ==
  <<Origin, "/b">>

AnchorA ==
  <<Origin, "/a", "#", "top">>

External ==
  <<"https://x.example", "/">>

AllHrefs ==
  {Root, PageA, PageB, AnchorA, External}

\* the one element of a singleton: names a value that is computed once
The(S) ==
  CHOOSE x \in S : TRUE

\* String.prototype.includes on the tokens of a URL
Includes(v, s) ==
  \E i \in 1..Len(v) : v[i] = s

Range(s) ==
  {s[i] : i \in 1..Len(s)}

Count(s, x) ==
  Cardinality({i \in 1..Len(s) : s[i] = x})

\* position of the first x in s, 0 when absent
IndexOf(s, x) ==
  IF \E i \in 1..Len(s) : s[i] = x
  THEN CHOOSE i \in 1..Len(s) : s[i] = x /\ \A j \in 1..(i-1) : s[j] # x
  ELSE 0

\* the fetched markup, parsed: which page it is and whether it is an error page
formatNextDocument(url, status) ==
  [page |-> url, status |-> status]

\* hrefs of the <a> elements of a document body, in document order
documentLinks(doc) ==
  IF doc.status # 200 THEN <<>>
  ELSE IF doc.page = Root THEN <<Root, PageA, PageA, AnchorA, External>>
  ELSE IF doc.page = PageA THEN <<Root, PageB>>
  ELSE <<PageA>>

\* window.location.href
location ==
  hist[hidx]

\* ---------------------------------------------------------------- options
defaultOpts ==
  [prefetch |-> TRUE, pageTransitions |-> FALSE]

UserOpts ==
  { <<>>,
    [x \in {"prefetch"} |-> FALSE],
    [x \in {"pageTransitions"} |-> TRUE] }

\* the option objects a host is constructed with: a host without the
\* transition capability gets the one that asks for transitions, the only
\* one on which the capability test makes a difference
HostOpts ==
  IF transitionCap
  THEN UserOpts
  ELSE {o \in UserOpts : "pageTransitions" \in DOMAIN o}

\* { ...defaultOpts, ...opts }
mergeOpts(o) ==
  [k \in DOMAIN defaultOpts |-> IF k \in DOMAIN o THEN o[k] ELSE defaultOpts[k]]

\* --------------------------------------------------------------- prefetch
\* the filter without its `!this.prefetched.has(v)` clause
allLinks_noHas(on, links, href, pf) ==
  IF on
  THEN SelectSeq(links, LAMBDA v :
         /\ Includes(v, Origin)
         /\ ~Includes(v, "#")
         /\ v # href)
  ELSE <<>>

\* the filter without its "not current page" clause
allLinks_noCurrent(on, links, href, pf) ==
  IF on
  THEN SelectSeq(links, LAMBDA v :
         /\ Includes(v, Origin)
         /\ ~Includes(v, "#")
         /\ v \notin pf)
  ELSE <<>>

\* the filter of prefetch(): the hrefs a refresh will request
allLinks(on, links, href, pf) ==
  IF on
  THEN SelectSeq(links, LAMBDA v :
         /\ Includes(v, Origin)
         /\ ~Includes(v, "#")
         /\ v # href
         /\ v \notin pf)
  ELSE <<>>

\* the forEach of prefetch(): one link element per entry, then the set insert
prefetch(m, on, href) ==
  The({[m EXCEPT !.prefetched = @ \cup Range(urls),
                 !.linkEls = [u \in AllHrefs |-> @[u] + Count(urls, u)]] :
       urls \in {allLinks(on, documentLinks(m.body), href, m.prefetched)}})

\* ------------------------------------------------------------------ cycle
NewCycle(type, next, prev) ==
  [type |-> type, next |-> next, prev |-> prev, pc |-> "entry",
   steps |-> <<>>, ret |-> "pending", status |-> 0, threw |-> "none",
   closure |-> "none"]

Log(c, s) ==
  [c EXCEPT !.steps = Append(@, s)]

\* a catch block that returns false without dispatching router:error
Catch_silent(c) ==
  [c EXCEPT !.pc = "failed", !.ret = "false"]

\* a catch block that also refreshes the prefetch set
Catch_refresh(c) ==
  [Log(Log(c, "router:error"), "prefetch") EXCEPT !.pc = "failed", !.ret = "false"]

\* the catch block: dispatch router:error, return false
Catch(c) ==
  [Log(c, "router:error") EXCEPT !.pc = "failed", !.ret = "false"]

\* a guard that never short-circuits
RouterDisabled_never ==
  FALSE

\* the first guard of reconstructDOM
RouterDisabled ==
  ~enabled

\* the eligibility test without the same-URL comparison
Eligible_noDedup(type, next, prev) ==
  type \in {"popstate", "link", "go"}

\* the eligibility test without the list of accepted kinds
Eligible_anyType(type, next, prev) ==
  next # prev

\* the eligibility test of reconstructDOM
Eligible(type, next, prev) ==
  type \in {"popstate", "link", "go"} /\ next # prev

\* history.pushState: drop the forward entries, append, move to the new entry
addToPushState(h, i, url) ==
  [hist |-> Append(SubSeq(h, 1, i), url), hidx |-> i + 1]

Machine(c) ==
  [c |-> c, head |-> head, body |-> body, prefetched |-> prefetched,
   linkEls |-> linkEls, scrollY |-> scrollY]

Install(m) ==
  /\ head' = m.head
  /\ body' = m.body
  /\ prefetched' = m.prefetched
  /\ linkEls' = m.linkEls
  /\ scrollY' = m.scrollY

\* a statement that does nothing once the router is disabled
Step_checksEnabled(m, name, throwAt, after) ==
  IF m.c.threw # "none" \/ ~enabled THEN m
  ELSE IF throwAt = name THEN [m EXCEPT !.c.threw = name]
  ELSE [after EXCEPT !.c = Log(m.c, name)]

\* one synchronous statement: skipped once something threw, throws when the
\* environment says so, otherwise is logged as completed
Step(m, name, throwAt, after) ==
  IF m.c.threw # "none" THEN m
  ELSE IF throwAt = name THEN [m EXCEPT !.c.threw = name]
  ELSE [after EXCEPT !.c = Log(m.c, name)]

mergeHead(m, doc, throwAt) ==
  The({Step(x, "mergeHead", throwAt, [x EXCEPT !.head = doc]) : x \in {m}})

replaceBody(m, doc, throwAt) ==
  The({Step(x, "replaceBody", throwAt, [x EXCEPT !.body = doc]) : x \in {m}})

runScripts(m, throwAt) ==
  The({Step(x, "runScripts", throwAt, x) : x \in {m}})

\* window.scrollTo for the kinds that open a fresh page, nothing for a pop
scrollToTop(type, y) ==
  IF type \in {"link", "go"} THEN "top" ELSE y

\* scroll handling that treats every cycle as a link navigation
handleScroll_asLink(m, throwAt) ==
  The({Step(x, "scroll", throwAt, [x EXCEPT !.scrollY = scrollToTop("link", @)]) : x \in {m}})

\* scrollToTop(type), with the kind of the cycle that runs it
handleScroll(m, throwAt) ==
  The({Step(x, "scroll", throwAt, [x EXCEPT !.scrollY = scrollToTop(x.c.type, @)]) : x \in {m}})

\* the two statements in the opposite order
MergeBody_scriptsFirst(m, doc, throwAt) ==
  replaceBody(runScripts(m, throwAt), doc, throwAt)

\* the body replacement left out: only the scripts are run again
MergeBody_scriptsOnly(m, doc, throwAt) ==
  runScripts(m, throwAt)

\* replaceBody reports completion but the live body keeps its old content
MergeBody_noReplace(m, doc, throwAt) ==
  runScripts(The({Step(x, "replaceBody", throwAt, x) : x \in {m}}), throwAt)

\* replaceBody(nextDoc); runScripts();
MergeBody(m, doc, throwAt) ==
  runScripts(replaceBody(m, doc, throwAt), throwAt)

\* new URL(path, location.origin).href
resolveURL(path) ==
  <<Origin, path>>

ThrowPoints ==
  {"none", "parse", "mergeHead", "replaceBody", "runScripts"}

\* the code after `await res.text()` up to the end of the try block; the host
\* runs the callback given to transition.start in a later task
AfterText(c, throwAt) ==
  LET doc == formatNextDocument(c.next, c.status)
      m0 == Machine(Log(c, "text"))
      m1 == Step(m0, "parse", throwAt, m0)
      m2 == mergeHead(m1, doc, throwAt)
      m3 == IF opts.pageTransitions /\ transitionCap
            THEN The({IF x.c.threw = "none"
                      THEN [x EXCEPT !.c.closure = "pending"]
                      ELSE x : x \in {m2}})
            ELSE MergeBody(m2, doc, throwAt)
      m4 == handleScroll(m3, throwAt)
      m5 == The({Step(x, "router:end", throwAt, x) : x \in {m4}})
      m6 == The({Step(x, "prefetch", throwAt, prefetch(x, opts.prefetch, location)) :
                 x \in {m5}})
  IN The({IF x.c.threw # "none"
          THEN [x EXCEPT !.c = Catch(@)]
          ELSE [x EXCEPT !.c.pc = "settled", !.c.ret = "undefined"] : x \in {m6}})

\* a call that has not returned, or whose transition callback is outstanding
InProgress(c) ==
  c.pc \in {"fetching", "reading"} \/ c.closure = "pending"

\* the records a new call keeps next to its own
Live ==
  SelectSeq(cycles, InProgress)

\* 1 when the step from record c to record d met a new throw
NewThrow(c, d) ==
  IF c.threw = "none" /\ d.threw # "none" THEN 1 ELSE 0

\* ---------------------------------------------------------------- actions
Init ==
  /\ constructed = FALSE
  /\ hasHistory \in BOOLEAN
  /\ transitionCap \in BOOLEAN
  /\ opts = defaultOpts
  /\ enabled = TRUE
  /\ prefetched = {}
  /\ hist = <<Root>>
  /\ hidx = 1
  /\ head = formatNextDocument(Root, 200)
  /\ body = formatNextDocument(Root, 200)
  /\ linkEls = [u \in AllHrefs |-> 0]
  /\ scrollY = "scrolled"
  /\ warnings = 0
  /\ calls = 0
  /\ faults = 0
  /\ cycles = <<>>

\* new Router(o)
Construct(o) ==
  /\ ~constructed
  /\ constructed' = TRUE
  /\ opts' = mergeOpts(o)
  /\ warnings' = IF hasHistory THEN warnings ELSE warnings + 1
  /\ Install(prefetch(Machine(<<>>), mergeOpts(o).prefetch, location))
  /\ UNCHANGED <<hasHistory, transitionCap, enabled, hist, hidx, calls, faults, cycles>>

\* the host writes the public field `enabled`
SetEnabled(b) ==
  /\ constructed
  /\ enabled # b
  /\ enabled' = b
  /\ UNCHANGED <<constructed, hasHistory, transitionCap, opts, prefetched,
                 hist, hidx, head, body, linkEls, scrollY, warnings, calls, faults,
                 cycles>>

\* reconstructDOM up to its first await; h, i is the host history and y the
\* scroll position at the call
reconstructDOM(type, next, prev, h, i, y) ==
  LET c == NewCycle(type, next, prev)
  IN /\ calls < MaxCycles
     /\ calls' = calls + 1
     /\ scrollY' = y
     /\ IF RouterDisabled
        THEN /\ cycles' = Append(Live, [c EXCEPT !.pc = "disabled", !.ret = "undefined"])
             /\ hist' = h
             /\ hidx' = i
        ELSE IF Eligible(type, next, prev)
        THEN IF hasHistory
             THEN /\ cycles' = Append(Live,
                       [Log(Log(Log(c, "router:fetch"), "push"), "fetch")
                          EXCEPT !.pc = "fetching"])
                  /\ hist' = addToPushState(h, i, next).hist
                  /\ hidx' = addToPushState(h, i, next).hidx
             ELSE /\ cycles' = Append(Live,
                       Catch([Log(c, "router:fetch") EXCEPT !.threw = "push"]))
                  /\ hist' = h
                  /\ hidx' = i
        ELSE /\ cycles' = Append(Live, [c EXCEPT !.pc = "skipped", !.ret = "undefined"])
             /\ hist' = h
             /\ hidx' = i
     /\ UNCHANGED <<constructed, hasHistory, transitionCap, opts, enabled,
                    prefetched, head, body, linkEls, warnings, faults>>

\* router.go(path)
go(path) ==
  /\ constructed
  /\ reconstructDOM("go", resolveURL(path), location, hist, hidx, scrollY)

\* a click reaches the document listener; the decoder marks it "link" or not
onClick(type, path) ==
  /\ constructed
  /\ hasHistory
  /\ reconstructDOM(type, resolveURL(path), location, hist, hidx, scrollY)

\* the host traverses the history by dir, restores the scroll position it
\* remembers for that entry and fires popstate
onPop(dir) ==
  /\ constructed
  /\ hasHistory
  /\ hidx + dir \in 1..Len(hist)
  /\ reconstructDOM("popstate", hist[hidx + dir], location, hist, hidx + dir,
                    "remembered")

\* `await fetch(next)` completes
FetchResolve(k, outcome) ==
  /\ k \in 1..Len(cycles)
  /\ cycles[k].pc = "fetching"
  /\ outcome # "ok" => faults < MaxFaults
  /\ faults' = IF outcome = "ok" THEN faults ELSE faults + 1
  /\ cycles' = [cycles EXCEPT ![k] =
        IF outcome = "reject"
        THEN Catch([@ EXCEPT !.threw = "fetch"])
        ELSE [@ EXCEPT !.pc = "reading",
                       !.status = IF outcome = "ok" THEN 200 ELSE 500]]
  /\ UNCHANGED <<constructed, hasHistory, transitionCap, opts, enabled,
                 prefetched, hist, hidx, head, body, linkEls, scrollY, warnings,
                 calls>>

\* `await res.text()` completes and the rest of the try block runs
TextResolve(k, readOk, throwAt) ==
  /\ k \in 1..Len(cycles)
  /\ cycles[k].pc = "reading"
  /\ (~readOk \/ throwAt # "none") => faults < MaxFaults
  /\ \E m \in {IF readOk
                THEN AfterText(cycles[k], throwAt)
                ELSE Machine(Catch([cycles[k] EXCEPT !.threw = "text"]))} :
        /\ cycles' = [cycles EXCEPT ![k] = m.c]
        /\ faults' = faults + NewThrow(cycles[k], m.c)
        /\ Install(m)
  /\ UNCHANGED <<constructed, hasHistory, transitionCap, opts, enabled,
                 hist, hidx, warnings, calls>>

\* the host runs the callback given to transition.start
TransitionCallback(k, throwAt) ==
  /\ k \in 1..Len(cycles)
  /\ cycles[k].closure = "pending"
  /\ throwAt # "none" => faults < MaxFaults
  /\ \E m \in {MergeBody(Machine(cycles[k]),
                          formatNextDocument(cycles[k].next, cycles[k].status),
                          throwAt)} :
        /\ cycles' = [cycles EXCEPT ![k] =
              [m.c EXCEPT !.closure = IF m.c.threw = "none" THEN "done" ELSE "threw"]]
        /\ faults' = faults + NewThrow(cycles[k], m.c)
        /\ Install(m)
  /\ UNCHANGED <<constructed, hasHistory, transitionCap, opts, enabled,
                 hist, hidx, warnings, calls>>

Next ==
  \/ \E o \in HostOpts : Construct(o)
  \/ \E b \in BOOLEAN : SetEnabled(b)
  \/ \E p \in Paths : go(p)
  \/ \E t \in {"link", "other"}, p \in Paths : onClick(t, p)
  \/ \E d \in {-1, 1} : onPop(d)
  \/ \E k \in 1..MaxCycles, o \in {"ok", "http500", "reject"} : FetchResolve(k, o)
  \/ \E k \in 1..MaxCycles, r \in BOOLEAN, t \in ThrowPoints :
        TextResolve(k, r, t)
  \/ \E k \in 1..MaxCycles, t \in {"none", "replaceBody", "runScripts"} :
        TransitionCallback(k, t)

Spec ==
  Init /\ [][Next]_vars

\* every fetch and every body read the router awaits completes or rejects
FairSpec ==
  /\ Init
  /\ [][Next]_vars
  /\ WF_vars(\E k \in 1..MaxCycles, o \in {"ok", "http500", "reject"} : FetchResolve(k, o))
  /\ WF_vars(\E k \in 1..MaxCycles, r \in BOOLEAN, t \in ThrowPoints : TextResolve(k, r, t))

\* ----------------------------------------------------------------- claims
Cycles ==
  1..Len(cycles)

Has(c, s) ==
  \E i \in 1..Len(c.steps) : c.steps[i] = s

\* C1: an intent that reaches reconstructDOM while enabled is false issues no
\* fetch, pushes no history entry, dispatches no router event and leaves the
\* live head, body, the prefetched set and the prefetch elements unchanged.
C1_DisabledNoOp ==
  [][(~enabled /\ calls' = calls + 1) =>
        /\ cycles'[Len(cycles')].steps = <<>>
        /\ cycles'[Len(cycles')].pc \notin {"fetching", "reading", "failed", "settled"}
        /\ cycles'[Len(cycles')].ret = "undefined"
        /\ hist' = hist
        /\ head' = head
        /\ body' = body
        /\ prefetched' = prefetched
        /\ linkEls' = linkEls]_vars

C1_Witness ==
  \E k \in Cycles :
    /\ cycles[k].pc = "disabled"
    /\ cycles[k].type = "link"
    /\ cycles[k].next # cycles[k].prev

\* C2: a cycle whose next equals its prev is skipped: it completes no step at
\* all (no router:fetch, no push, no fetch, no DOM step) and gets no response,
\* whatever its kind.
C2_SameUrlDedup ==
  \A k \in Cycles :
    cycles[k].next = cycles[k].prev =>
      /\ cycles[k].steps = <<>>
      /\ cycles[k].status = 0
      /\ cycles[k].pc \in {"skipped", "disabled"}
      /\ cycles[k].threw = "none"

C2_Witness ==
  \E k \in Cycles :
    /\ cycles[k].pc = "skipped"
    /\ cycles[k].type = "link"
    /\ cycles[k].next = cycles[k].prev

\* C3: a cycle whose fetch completed with a non-2xx status ends in Failed:
\* one router:error, no router:end, the outcome false, and the live body is
\* not the error response.
C3_Non2xxFails ==
  \A k \in Cycles :
    (cycles[k].status = 500 /\ cycles[k].pc # "reading") =>
      /\ Count(cycles[k].steps, "router:error") = 1
      /\ ~Has(cycles[k], "router:end")
      /\ ~Has(cycles[k], "replaceBody")
      /\ cycles[k].ret = "false"

\* C4: a cycle in which the fetch rejects, the body cannot be read or a
\* parse / head-merge / body-replace / script-run step throws emits exactly
\* one router:error, no router:end, runs no prefetch refresh, resolves to
\* false, and its exception does not escape to the host.
C4_FailureConversion ==
  \A k \in Cycles :
    cycles[k].threw # "none" =>
      /\ Count(cycles[k].steps, "router:error") = 1
      /\ ~Has(cycles[k], "router:end")
      /\ ~Has(cycles[k], "prefetch")
      /\ cycles[k].ret = "false"
      /\ cycles[k].closure # "threw"

\* C5: every cycle that passes the eligibility check (it dispatched
\* router:fetch) pushed next right after router:fetch and before issuing the
\* fetch, and when it is the latest call and has failed, the current history
\* entry is still next.
C5_OptimisticPush ==
  \A k \in Cycles :
    Has(cycles[k], "router:fetch") =>
      /\ Len(cycles[k].steps) >= 3
      /\ SubSeq(cycles[k].steps, 1, 3) = <<"router:fetch", "push", "fetch">>
      /\ (k = Len(cycles) /\ cycles[k].pc = "failed") => location = cycles[k].next

\* C6: the script run of a cycle never precedes that cycle's body
\* replacement, each happens at most once, and in a cycle that settled with
\* no throw and no transition callback outstanding each happened exactly
\* once; with native transitions on or off.
C6_ScriptsAfterBody ==
  \A k \in Cycles :
    /\ Count(cycles[k].steps, "replaceBody") <= 1
    /\ Count(cycles[k].steps, "runScripts") <= 1
    /\ Has(cycles[k], "runScripts") =>
         /\ Has(cycles[k], "replaceBody")
         /\ IndexOf(cycles[k].steps, "replaceBody") < IndexOf(cycles[k].steps, "runScripts")
    /\ (cycles[k].pc = "settled" /\ cycles[k].closure \in {"none", "done"}) =>
         /\ Count(cycles[k].steps, "replaceBody") = 1
         /\ Count(cycles[k].steps, "runScripts") = 1

C6_Witness ==
  \E k \in Cycles :
    /\ cycles[k].pc = "settled"
    /\ cycles[k].closure = "done"
    /\ Has(cycles[k], "runScripts")

PrefetchSteps ==
  Cardinality({k \in Cycles : Has(cycles[k], "prefetch")})

\* C7: right after a prefetch refresh (at construction or at the end of a
\* cycle), a second refresh over the same links and location requests
\* nothing and leaves the prefetched set and the prefetch elements as they
\* are, and every link the filter lets through is in the set.
C7_IdempotentPrefetch ==
  [][((constructed' /\ ~constructed) \/ PrefetchSteps' > PrefetchSteps) =>
        /\ allLinks(opts'.prefetch, documentLinks(body'), hist'[hidx'], prefetched') = <<>>
        /\ prefetch(Machine(<<>>)', opts'.prefetch, hist'[hidx']).prefetched = prefetched'
        /\ prefetch(Machine(<<>>)', opts'.prefetch, hist'[hidx']).linkEls = linkEls'
        /\ opts'.prefetch =>
             \A v \in Range(documentLinks(body')) :
               (Includes(v, Origin) /\ ~Includes(v, "#") /\ v # hist'[hidx'])
                 => v \in prefetched']_vars

C7_Witness ==
  /\ PageB \in prefetched
  /\ PageA \in prefetched
  /\ linkEls[PageA] = 2
  /\ \E k \in Cycles : Has(cycles[k], "prefetch")

\* C8 as stated: the prefetched set never contains the current location.
C8_NeverCurrent ==
  constructed => location \notin prefetched

\* C8, amended: a prefetch refresh never adds the URL that is the document
\* location at the time of that refresh.
C8_NeverAddsCurrent ==
  [][\A u \in prefetched' \ prefetched : u # hist'[hidx']]_vars

C8_Witness ==
  /\ constructed
  /\ location = Root
  /\ Root \in Range(documentLinks(body))
  /\ PageA \in prefetched
  /\ Root \notin prefetched

\* C9: in a host without the history capability the constructed controller
\* is disabled and has warned once, so no call of go starts a cycle: no
\* router:fetch, no fetch, no push.
C9_UnsupportedDisables ==
  (constructed /\ ~hasHistory) =>
    /\ warnings = 1
    /\ \A k \in Cycles : cycles[k].steps = <<>>

\* C10: when the latest cycle has failed for URL u and the router is
\* enabled, a go(u) passes the eligibility check (it is not skipped).
C10_RetryAfterFailure ==
  [][(/\ Len(cycles) >= 1
      /\ calls' = calls + 1
      /\ enabled
      /\ cycles[Len(cycles)].pc = "failed"
      /\ cycles'[Len(cycles')].type = "go"
      /\ cycles'[Len(cycles')].next = cycles[Len(cycles)].next)
        => cycles'[Len(cycles')].pc # "skipped"]_vars

\* a cycle that met no fault and has nothing outstanding
CleanSettled(c) ==
  /\ c.pc = "settled"
  /\ c.closure \in {"none", "done"}
  /\ c.status = 200
  /\ c.threw = "none"

\* the step completed replaceBody in the record at index k
Replaced(k) ==
  /\ calls' = calls
  /\ ~Has(cycles[k], "replaceBody")
  /\ Has(cycles'[k], "replaceBody")

\* C11: when two or more overlapping cycles have all settled with no failure,
\* the rendered head and body are the document of the URL in the address
\* bar, whatever the order in which the fetches resolved.
C11_AddressBarMatchesDom ==
  (/\ Len(cycles) >= 2
   /\ faults = 0
   /\ \A k \in Cycles : CleanSettled(cycles[k]))
    => /\ body = formatNextDocument(location, 200)
       /\ head = formatNextDocument(location, 200)

\* C12: a new call leaves the cycles in progress as they are (none is
\* cancelled or blocked), the live body changes only in a step that completes
\* a cycle's body replacement, and it is then that cycle's fetched body: the
\* merge that completes last decides the body, whatever the arrival order.
C12_LastMergeWins ==
  [][/\ calls' = calls + 1 =>
          /\ body' = body
          /\ Len(cycles') = Len(Live) + 1
          /\ \A k \in 1..Len(Live) : cycles'[k] = Live[k]
     /\ calls' = calls =>
          /\ \A k \in Cycles :
               Replaced(k) =>
                 body' = formatNextDocument(cycles[k].next, cycles'[k].status)
          /\ body' = body \/ \E k \in Cycles : Replaced(k)]_vars

\* both cycles overlapped and settled; the one that arrived first merged last
C12_Witness ==
  /\ Len(cycles) = 2
  /\ CleanSettled(cycles[1])
  /\ CleanSettled(cycles[2])
  /\ cycles[1].next # cycles[2].next
  /\ body = formatNextDocument(cycles[1].next, 200)

\* the step took the record at index k from pc p to a different pc
Left(k, p) ==
  /\ calls' = calls
  /\ cycles[k].pc = p
  /\ cycles'[k].pc # p

\* C13: while enabled is false a cycle suspended at fetch still moves on to
\* the body read, and a cycle whose body read completes without a fault
\* still merges the head, replaces the body and runs the scripts (or hands
\* them to the transition), dispatches router:end, refreshes the prefetch
\* set and settles.
C13_DisableDoesNotAbort ==
  [][\A k \in Cycles :
       /\ (~enabled /\ Left(k, "fetching") /\ faults' = faults)
            => cycles'[k].pc = "reading"
       /\ (~enabled /\ Left(k, "reading") /\ faults' = faults) =>
            /\ cycles'[k].pc = "settled"
            /\ Has(cycles'[k], "mergeHead")
            /\ head' = formatNextDocument(cycles[k].next, cycles[k].status)
            /\ \/ cycles'[k].closure = "pending"
               \/ /\ Has(cycles'[k], "replaceBody")
                  /\ Has(cycles'[k], "runScripts")
                  /\ body' = formatNextDocument(cycles[k].next, cycles[k].status)
            /\ Has(cycles'[k], "router:end")
            /\ Has(cycles'[k], "prefetch")
            /\ prefetched' = prefetch(Machine(cycles[k])', opts.prefetch, location).prefetched]_vars

\* a call arrived while the router was disabled and the first cycle was
\* suspended; the first cycle has settled since, the router still disabled
C13_Witness ==
  /\ ~enabled
  /\ Len(cycles) = 2
  /\ cycles[2].pc = "disabled"
  /\ cycles[1].pc = "settled"
  /\ Has(cycles[1], "runScripts")
  /\ Has(cycles[1], "router:end")
  /\ body = formatNextDocument(cycles[1].next, 200)

\* C14: a cycle has run the prefetch refresh exactly once when it settled
\* and never otherwise (disabled, skipped, failed or still in progress);
\* before construction nothing is prefetched, construction alone requests
\* the links of the first document, and with the prefetch option off no
\* request is ever issued and the prefetched set stays empty.
C14_PrefetchSchedule ==
  /\ \A k \in Cycles :
       Count(cycles[k].steps, "prefetch") = IF cycles[k].pc = "settled" THEN 1 ELSE 0
  /\ ~constructed => (prefetched = {} /\ \A u \in AllHrefs : linkEls[u] = 0)
  /\ (constructed /\ calls = 0 /\ opts.prefetch) =>
       (prefetched = {PageA} /\ linkEls[PageA] = 2 /\ linkEls[PageB] = 0)
  /\ (constructed /\ ~opts.prefetch) =>
       (prefetched = {} /\ \A u \in AllHrefs : linkEls[u] = 0)

C14_Witness ==
  /\ opts.prefetch
  /\ \E k \in Cycles :
       /\ cycles[k].pc = "settled"
       /\ cycles[k].steps[Len(cycles[k].steps)] = "prefetch"
  /\ PageB \in prefetched
  /\ linkEls[PageB] = 1

\* C16: a call whose kind is none of popstate, link, go completes no step:
\* no router:fetch, no push, no fetch, no DOM step, no router:error, also
\* when its next differs from its prev.
C16_UnknownKindSkipped ==
  \A k \in Cycles :
    cycles[k].type \notin {"popstate", "link", "go"} =>
      /\ cycles[k].steps = <<>>
      /\ cycles[k].status = 0
      /\ cycles[k].threw = "none"
      /\ cycles[k].pc \in {"skipped", "disabled"}

C16_Witness ==
  \E k \in Cycles :
    /\ cycles[k].type = "other"
    /\ cycles[k].next # cycles[k].prev
    /\ cycles[k].pc = "skipped"

\* the step ran the scroll handling of the record at index k
Scrolled(k) ==
  /\ calls' = calls
  /\ ~Has(cycles[k], "scroll")
  /\ Has(cycles'[k], "scroll")

StepsNoRead(c) ==
  SelectSeq(c.steps, LAMBDA x : x # "text")

PipelineOrder ==
  <<"router:fetch", "push", "fetch", "parse", "mergeHead", "replaceBody",
    "runScripts", "scroll", "router:end", "prefetch">>

\* C17: a cycle that settled without a throw ran fetch-start, push, fetch,
\* parse, head merge, body replace, script run, scroll handling,
\* navigation-end, prefetch refresh in this order, each once, and a cycle
\* that has dispatched router:end has replaced the body before it.
C17_PipelineOrder ==
  \A k \in Cycles :
    /\ (cycles[k].pc = "settled" /\ cycles[k].threw = "none" /\ cycles[k].closure # "pending")
         => StepsNoRead(cycles[k]) = PipelineOrder
    /\ Has(cycles[k], "router:end") =>
         /\ Has(cycles[k], "replaceBody")
         /\ IndexOf(cycles[k].steps, "replaceBody") < IndexOf(cycles[k].steps, "router:end")

\* C18: no href ever gets more than one prefetch link element.
C18_OneRequestPerUrl ==
  \A u \in AllHrefs : linkEls[u] <= 1

\* the merge of this cycle goes through a native document transition
UsesTransition ==
  opts.pageTransitions /\ transitionCap

\* the step completed step s in the record at index k
Gained(k, s) ==
  /\ calls' = calls
  /\ ~Has(cycles[k], s)
  /\ Has(cycles'[k], s)

\* the step made a merge statement of the record at index k throw
MergeThrew(k) ==
  /\ calls' = calls
  /\ cycles[k].threw = "none"
  /\ cycles'[k].threw \in {"mergeHead", "replaceBody", "runScripts"}

\* C20: without native transitions, a step that merges the head of a cycle
\* also replaces the body and runs the scripts of that cycle unless one of
\* them throws, so no step of another cycle comes between them; and every
\* step in which no merge throws takes a state whose head and body come
\* from one document to a state whose head and body come from one document.
C20_MergeAtomic ==
  [][~UsesTransition =>
       /\ \A k \in Cycles :
            (Gained(k, "mergeHead") /\ ~MergeThrew(k)) =>
              /\ Gained(k, "replaceBody")
              /\ Gained(k, "runScripts")
              /\ head' = formatNextDocument(cycles[k].next, cycles[k].status)
              /\ body' = head'
       /\ (head = body /\ \A k \in Cycles : ~MergeThrew(k)) => head' = body']_vars

\* two cycles overlapped and both merged directly; the later one merged last
C20_Witness ==
  /\ constructed
  /\ ~UsesTransition
  /\ Len(cycles) = 2
  /\ CleanSettled(cycles[1])
  /\ CleanSettled(cycles[2])
  /\ cycles[1].next # cycles[2].next
  /\ head = formatNextDocument(cycles[2].next, 200)
  /\ body = head

Suspended(c) ==
  c.pc \in {"fetching", "reading"}

Outcomes(c) ==
  Count(c.steps, "router:end") + Count(c.steps, "router:error")

OneOutcome ==
  \A k \in Cycles :
    IF Has(cycles[k], "router:fetch")
    THEN /\ cycles[k].steps[1] = "router:fetch"
         /\ Count(cycles[k].steps, "router:fetch") = 1
         /\ Outcomes(cycles[k]) = IF Suspended(cycles[k]) THEN 0 ELSE 1
    ELSE Outcomes(cycles[k]) = 0

\* C19: a cycle dispatches router:fetch first and once; while it is suspended
\* at the fetch or the body read it has dispatched neither router:end nor
\* router:error, afterwards exactly one of them; and when fetches and body
\* reads complete or reject, every suspended cycle gets there, each on its
\* own when cycles overlap.
C19_OneOutcome ==
  /\ []OneOutcome
  /\ []<>(\A k \in Cycles : ~Suspended(cycles[k]))

\* two cycles overlapped: one dispatched router:error, the other router:end
C19_Witness ==
  \E j, k \in Cycles :
    /\ j # k
    /\ cycles[j].pc = "failed"
    /\ Count(cycles[j].steps, "router:error") = 1
    /\ cycles[k].pc = "settled"
    /\ Count(cycles[k].steps, "router:end") = 1
====
